---- MODULE Spec2Model ----
(***************************************************************************)
(* Model of the two analysis scripts of the repository:                    *)
(*   airbnb/bounding_box.py     get_bounding_box                           *)
(*   airbnb/airbnb.py           check_data_exist, get_user_input,          *)
(*                              get_listings, filter_listings,             *)
(*                              k_mean_cluster, plot_amenities_cluster,    *)
(*                              get_ideal_listings, __main__               *)
(*   restuarants/restaurants.py check_data_exist, get_restaurants,         *)
(*                              split_restaurants, __main__                *)
(*                                                                         *)
(* Numbers.  The code computes in IEEE doubles.  The model computes on a   *)
(* fixed-point grid and rounds every quotient to the nearest grid point,   *)
(* as a double operation rounds to the nearest double:                     *)
(*   degrees      1 unit = 0.0001 degree                                   *)
(*   radians      1 unit = 0.000001 radian                                 *)
(*   kilometres   1 unit = 0.001 km                                        *)
(*   cosine       1 unit = 0.01                                            *)
(***************************************************************************)
EXTENDS Integers, Sequences, FiniteSets, TLC

VARIABLES
    bb_args,      \* arguments of the pending/finished get_bounding_box call
    bb_pc,        \* "call" before the call, "returned" after it
    bb_status,    \* "none", "ok", "AssertionError", "ZeroDivisionError"
    bb_box,       \* the set of BoundingBox objects the call produced (0 or 1)
    il_args,      \* arguments of get_ideal_listings: airbnb_locations (a
                  \* sequence of rows), clusters_center, distance
    il_pc,        \* "call" before the call, "returned" after it
    il_status,    \* "none", "ok", "AssertionError", "ValueError", ...
    il_result,    \* ideal_rentals: the rows returned, each with its index
    script,       \* which script runs: "airbnb" or "restaurants" ("none": neither)
    pc,           \* position in __main__: "check_data_exist", "get_user_input",
                  \* "main", "done", "exit" (exit() was called), "error"
    files,        \* the paths that exist under the working directory
    created,      \* the paths this run created (os.makedirs, save, savefig, open)
    exit_message, \* the argument of exit(), "" when exit() was not called
    prompts,      \* the input() prompts shown so far
    typed,        \* what the user typed at the prompts
    user_input,   \* airbnb.py: the dict get_user_input returned
    name_input,   \* restaurants.py: the restaurant name read by input()
    error,        \* the exception main ended with, "" when none
    csv,          \* airbnb.py: the rows of airbnb-listings.csv.gz as read
    airbnb,       \* airbnb.py: the frame get_listings returned
    airbnb_filtered,   \* airbnb.py: main's airbnb_locations, the frame filter_listings returned
    data,         \* restaurants.py: the rows of the amenities file as read
    restaurants,  \* restaurants.py: the frame get_restaurants returned
    chain_restaurants,     \* restaurants.py: first frame of split_restaurants
    non_chain_restaurants, \* restaurants.py: second frame of split_restaurants
    km_n,         \* the number of rows of amenities_data given to k_mean_cluster
    km_pc,        \* "k_mean_cluster", "plot_amenities_cluster", "done", "error"
    km_status,    \* "none", "ok" or the exception raised
    km_clusters,  \* amenities['clusters']: for each label, the number of rows with it
    km_drawn      \* for each label drawn: the marker colour and the number of markers

boxVars == <<bb_args, bb_pc, bb_status, bb_box>>
idealVars == <<il_args, il_pc, il_status, il_result>>
scriptVars == <<script, pc, files, created, exit_message, prompts, typed, user_input,
                name_input, error, csv, airbnb, airbnb_filtered, data, restaurants,
                chain_restaurants, non_chain_restaurants>>

clusterVars == <<km_n, km_pc, km_status, km_clusters, km_drawn>>

vars == <<boxVars, idealVars, scriptVars, clusterVars>>

----------------------------------------------------------------------------
(* Arithmetic helpers *)

\* a / b rounded to the nearest integer (b > 0), halves rounded up
RDiv(a, b) == (2 * a + b) \div (2 * b)

\* a / b for a divisor of either sign (b # 0)
Quot(a, b) == IF b > 0 THEN RDiv(a, b) ELSE 0 - RDiv(a, 0 - b)

----------------------------------------------------------------------------
(* bounding_box.py *)

\* radius = 6371 (km)
radius == 6371

\* math.radians: degrees * pi/180; one degree unit is 1.745 radian units
radians(d) == RDiv(d * 349, 200)

\* math.degrees: radians * 180/pi
rad2deg(r) == RDiv(r * 200, 349)

\* What an exact cosine would give: 0 at the poles.
cos_exact(lat) ==
    CASE lat = radians(0)                               -> 100
      [] lat = radians(492463) \/ lat = radians(-492463) -> 65
      [] lat = radians(600000) \/ lat = radians(-600000) -> 50
      [] lat = radians(900000) \/ lat = radians(-900000) -> 0
      [] OTHER                                          -> -1

\* math.cos on the latitudes the model draws.  radians(90.0) is the double
\* 1.5707963267948966, not pi/2, and math.cos of it is 6.123233995736766e-17:
\* strictly positive.  On the grid that is the smallest positive value, 1.
\* Past the poles (reachable only without the assertions) the cosine is
\* negative.
cos(lat) ==
    CASE lat = radians(0)                               -> 100
      [] lat = radians(492463) \/ lat = radians(-492463) -> 65
      [] lat = radians(600000) \/ lat = radians(-600000) -> 50
      [] lat = radians(900000) \/ lat = radians(-900000) -> 1
      [] OTHER                                          -> -1

\* The assertions with "half_side_in_km >= 0" in place of "> 0".
preconditions_ge(latitude_in_degrees, longitude_in_degrees, half_side_in_km) ==
    /\ half_side_in_km >= 0
    /\ -900000 <= latitude_in_degrees /\ latitude_in_degrees <= 900000
    /\ -1800000 <= longitude_in_degrees /\ longitude_in_degrees <= 1800000

\* The three assert statements of get_bounding_box
preconditions(latitude_in_degrees, longitude_in_degrees, half_side_in_km) ==
    /\ half_side_in_km > 0
    /\ -900000 <= latitude_in_degrees /\ latitude_in_degrees <= 900000
    /\ -1800000 <= longitude_in_degrees /\ longitude_in_degrees <= 1800000

\* BoundingBox(): the four attributes, set by get_bounding_box
BoundingBox(a, b, c, d) == [lat_min |-> a, lon_min |-> b, lat_max |-> c, lon_max |-> d]

Raise(e) == [status |-> e, box |-> {}]

\* get_bounding_box: the outcome of the call, an error or one box.
\* half_side_in_km / radius in radian units is half * 1000 / radius, and
\* half_side_in_km / parallel_radius is half * 1000 * 100 / (radius * cos).
get_bounding_box(latitude_in_degrees, longitude_in_degrees, half_side_in_km) ==
    IF ~preconditions(latitude_in_degrees, longitude_in_degrees, half_side_in_km)
    THEN Raise("AssertionError")
    ELSE
      LET lat == radians(latitude_in_degrees)
          lon == radians(longitude_in_degrees)
          parallel_radius == radius * cos(lat)
      IN  IF parallel_radius = 0
          THEN Raise("ZeroDivisionError")
          ELSE
            LET lat_min == lat - RDiv(half_side_in_km * 1000, radius)
                lat_max == lat + RDiv(half_side_in_km * 1000, radius)
                lon_min == lon - Quot(half_side_in_km * 1000 * 100, parallel_radius)
                lon_max == lon + Quot(half_side_in_km * 1000 * 100, parallel_radius)
            IN  [status |-> "ok",
                 box |-> {BoundingBox(rad2deg(lat_min), rad2deg(lon_min),
                                      rad2deg(lat_max), rad2deg(lon_max))}]

----------------------------------------------------------------------------
(* airbnb.py: get_ideal_listings *)

\* MAX_DISTANCE_FROM_AMENITIES = 5 (km), in 0.001 km units
MAX_DISTANCE_FROM_AMENITIES == 5000

\* The rows of a data frame with their index labels (the position in the
\* frame get_ideal_listings was given)
Rows(df) == [i \in 1..Len(df) |-> [idx |-> i, id |-> df[i].id, lat |-> df[i].lat, lon |-> df[i].lon]]

\* The column values of a row: what drop_duplicates compares (not the index)
Values(row) == <<row.id, row.lat, row.lon>>

\* Lines 177-179: the rows strictly inside one box
InBox(row, location) ==
    /\ row.lat > location.lat_min /\ row.lon > location.lon_min
    /\ row.lat < location.lat_max /\ row.lon < location.lon_max

\* pd.concat of a list of frames: the rows of each frame in turn
RECURSIVE Concat(_)
Concat(frames) ==
    IF frames = <<>> THEN <<>> ELSE Head(frames) \o Concat(Tail(frames))

\* drop_duplicates(keep=False): every row whose column values occur on more
\* than one row of the frame is removed, all its occurrences included
drop_duplicates(frame) ==
    LET keep(i) == \A j \in 1..Len(frame) : j # i => Values(frame[j]) # Values(frame[i])
        RECURSIVE Pick(_)
        Pick(i) == IF i > Len(frame) THEN <<>>
                   ELSE (IF keep(i) THEN <<frame[i]>> ELSE <<>>) \o Pick(i + 1)
    IN  Pick(1)

\* get_ideal_listings: the outcome of the call, an error or the frame returned
get_ideal_listings(airbnb_locations, clusters_center, distance) ==
    LET calls == [k \in 1..Len(clusters_center) |->
                    get_bounding_box(clusters_center[k][1], clusters_center[k][2], distance)]
        failed == {k \in 1..Len(clusters_center) : calls[k].status # "ok"}
    IN  IF failed # {}
        THEN \* the list comprehension stops at the first call that raises
             LET k == CHOOSE k \in failed : \A m \in failed : k <= m
             IN  [status |-> calls[k].status, frame |-> <<>>]
        ELSE
          LET ideal_locations == [k \in 1..Len(clusters_center) |->
                                    CHOOSE b \in calls[k].box : TRUE]
              rows == Rows(airbnb_locations)
              ideal_listings == [k \in 1..Len(ideal_locations) |->
                                   SelectSeq(rows, LAMBDA r : InBox(r, ideal_locations[k]))]
          IN  IF ideal_listings = <<>>
              THEN \* pd.concat([]) raises ValueError: No objects to concatenate
                   [status |-> "ValueError", frame |-> <<>>]
              ELSE [status |-> "ok", frame |-> drop_duplicates(Concat(ideal_listings))]

----------------------------------------------------------------------------
(* Specification SpecBox: get_bounding_box applied to drawn arguments *)

BoxIdle ==
    /\ bb_args = [lat |-> 0, lon |-> 0, half |-> 0]
    /\ bb_pc = "idle"
    /\ bb_status = "none"
    /\ bb_box = {}

IdealIdle ==
    /\ il_args = [airbnb_locations |-> <<>>, clusters_center |-> <<>>, distance |-> 0]
    /\ il_pc = "idle"
    /\ il_status = "none"
    /\ il_result = <<>>

ScriptIdle ==
    /\ script = "none"
    /\ pc = "idle"
    /\ files = {}
    /\ created = {}
    /\ exit_message = ""
    /\ prompts = <<>>
    /\ typed = <<>>
    /\ user_input = <<>>
    /\ name_input = ""
    /\ error = ""
    /\ csv = <<>>
    /\ airbnb = <<>>
    /\ airbnb_filtered = <<>>
    /\ data = <<>>
    /\ restaurants = <<>>
    /\ chain_restaurants = <<>>
    /\ non_chain_restaurants = <<>>

ClusterIdle ==
    /\ km_n = 0
    /\ km_pc = "idle"
    /\ km_status = "none"
    /\ km_clusters = <<>>
    /\ km_drawn = <<>>

Latitudes == {-900001, -900000, -600000, 0, 492463, 600000, 900000, 900001}
Longitudes == {-1800001, -1800000, -1231162, 0, 1800000, 1800001}
HalfSides == {-5000, 0, 1, 20, 1000, 5000}

InitBox ==
    /\ bb_args \in [lat : Latitudes, lon : Longitudes, half : HalfSides]
    /\ bb_pc = "call"
    /\ bb_status = "none"
    /\ bb_box = {}
    /\ IdealIdle
    /\ ScriptIdle
    /\ ClusterIdle

CallGetBoundingBox ==
    /\ bb_pc = "call"
    /\ LET r == get_bounding_box(bb_args.lat, bb_args.lon, bb_args.half)
       IN  /\ bb_status' = r.status
           /\ bb_box' = r.box
    /\ bb_pc' = "returned"
    /\ UNCHANGED <<bb_args, idealVars, scriptVars, clusterVars>>

NextBox == CallGetBoundingBox

SpecBox == InitBox /\ [][NextBox]_vars

----------------------------------------------------------------------------
(* Properties of get_bounding_box, checked under SpecBox *)

\* The arguments the documentation calls valid
AcceptedArgs ==
    /\ bb_args.half > 0
    /\ -900000 <= bb_args.lat /\ bb_args.lat <= 900000
    /\ -1800000 <= bb_args.lon /\ bb_args.lon <= 1800000

\* The returned box has the centre strictly inside it
CentreStrictlyInside ==
    /\ bb_status = "ok"
    /\ Cardinality(bb_box) = 1
    /\ \A b \in bb_box :
          /\ b.lat_min < bb_args.lat /\ bb_args.lat < b.lat_max
          /\ b.lon_min < bb_args.lon /\ bb_args.lon < b.lon_max

C4_PreconditionsExact ==
    bb_pc = "returned" =>
        /\ (bb_status = "AssertionError") <=> ~AcceptedArgs
        /\ (bb_status = "AssertionError") => bb_box = {}
        /\ ~AcceptedArgs => bb_box = {}

\* C4 witness: a call with half side 0 was rejected, and a call with the
\* extreme accepted latitude and longitude was not
C4_Witness ==
    /\ bb_pc = "returned"
    /\ bb_args.half = 0
    /\ bb_args.lat = 492463
    /\ bb_status = "AssertionError"
    /\ bb_box = {}

----------------------------------------------------------------------------
(* Specification SpecIdeal: get_ideal_listings applied to drawn arguments *)

MaxListings == 2
MaxCenters == 2

\* Cluster centres: A (Vancouver), B 0.06 degree north of A (its 5 km box
\* overlaps A's), C far to the south-east
CenterA == <<492463, -1231162>>
CenterB == <<493063, -1231162>>
CenterC == <<480000, -1220000>>
Centers == {CenterA, CenterB, CenterC}

BoxOf(center, distance) == CHOOSE b \in get_bounding_box(center[1], center[2], distance).box : TRUE

\* Listing positions: inside A's 5 km box only, inside A's and B's, inside
\* none, and exactly on the southern edge of A's 5 km box
Positions ==
    { <<492300, -1231162>>, <<492700, -1231162>>, <<495000, -1231162>>,
      <<BoxOf(CenterA, MAX_DISTANCE_FROM_AMENITIES).lat_min, -1231162>> }

ListingRows == [id : {1, 2}, lat : {p[1] : p \in Positions}, lon : {p[2] : p \in Positions}]

SeqsUpTo(S, n) == UNION {[1..k -> S] : k \in 0..n}

InitIdeal ==
    /\ il_args \in [airbnb_locations : SeqsUpTo(ListingRows, MaxListings),
                    clusters_center : SeqsUpTo(Centers, MaxCenters),
                    distance : {0, 1000, MAX_DISTANCE_FROM_AMENITIES}]
    /\ il_pc = "call"
    /\ il_status = "none"
    /\ il_result = <<>>
    /\ BoxIdle
    /\ ScriptIdle
    /\ ClusterIdle

CallGetIdealListings ==
    /\ il_pc = "call"
    /\ LET r == get_ideal_listings(il_args.airbnb_locations, il_args.clusters_center,
                                   il_args.distance)
       IN  /\ il_status' = r.status
           /\ il_result' = r.frame
    /\ il_pc' = "returned"
    /\ UNCHANGED <<il_args, boxVars, scriptVars, clusterVars>>

NextIdeal == CallGetIdealListings

SpecIdeal == InitIdeal /\ [][NextIdeal]_vars

----------------------------------------------------------------------------
(* Properties of get_ideal_listings, checked under SpecIdeal *)

\* The number of cluster centres (by position in clusters_center) whose box
\* has the listing at index i strictly inside
BoxesAround(i) ==
    Cardinality({k \in 1..Len(il_args.clusters_center) :
        LET b == BoxOf(il_args.clusters_center[k], il_args.distance)
            l == il_args.airbnb_locations[i]
        IN  /\ b.lat_min < l.lat /\ l.lat < b.lat_max
            /\ b.lon_min < l.lon /\ l.lon < b.lon_max})

ReturnedIndexes == {il_result[n].idx : n \in 1..Len(il_result)}

\* C1 as stated: for any list of listings, any non-empty list of cluster
\* centres and any radius > 0, the call returns exactly the listings strictly
\* inside the box of exactly one cluster centre.
C1_ExactlyOneBox ==
    (il_pc = "returned" /\ il_args.clusters_center # <<>> /\ il_args.distance > 0) =>
        /\ il_status = "ok"
        /\ ReturnedIndexes = {i \in 1..Len(il_args.airbnb_locations) : BoxesAround(i) = 1}
        /\ Len(il_result) = Cardinality(ReturnedIndexes)

\* C2 as stated: given zero cluster centres the call completes normally and
\* returns an empty result, for any list of listings.
C2_NoCentersEmptyResult ==
    (il_pc = "returned" /\ il_args.clusters_center = <<>>) =>
        /\ il_status = "ok"
        /\ il_result = <<>>

----------------------------------------------------------------------------
(* Text and numbers: strings the code parses are sequences of characters *)

Digits == {"0", "1", "2", "3", "4", "5", "6", "7", "8", "9"}

DigitVal(c) ==
    CASE c = "0" -> 0 [] c = "1" -> 1 [] c = "2" -> 2 [] c = "3" -> 3 [] c = "4" -> 4
      [] c = "5" -> 5 [] c = "6" -> 6 [] c = "7" -> 7 [] c = "8" -> 8 [] c = "9" -> 9

IsNumeral(s) == s # <<>> /\ \A i \in 1..Len(s) : s[i] \in Digits

RECURSIVE NumeralVal(_)
NumeralVal(s) ==
    IF s = <<>> THEN 0
    ELSE 10 * NumeralVal(SubSeq(s, 1, Len(s) - 1)) + DigitVal(s[Len(s)])

\* The missing-value marker (float NaN) of a numeric column
NaN == -1

\* Comparisons of floats: every comparison with NaN is false
FloatLe(a, b) == a # NaN /\ b # NaN /\ a <= b
FloatGt(a, b) == a # NaN /\ b # NaN /\ a > b

\* Series.str.replace(pat, ''): every occurrence of the character removed
str_replace(s, pat) == SelectSeq(s, LAMBDA c : c # pat)

\* pd.to_numeric with a malformed value mapped to 0 in place of NaN
to_numeric_zero(s) == IF IsNumeral(s) THEN NumeralVal(s) ELSE 0

\* pd.to_numeric(value, errors='coerce'): the number, or NaN when the text
\* is not a number
to_numeric(s) == IF IsNumeral(s) THEN NumeralVal(s) ELSE NaN

\* float(x) of a dict value: an int default converts, a numeral parses, any
\* other text raises ValueError
float(v) ==
    IF v.kind = "int" THEN [status |-> "ok", val |-> v.n]
    ELSE IF IsNumeral(v.s) THEN [status |-> "ok", val |-> NumeralVal(v.s)]
    ELSE [status |-> "ValueError", val |-> NaN]

\* dict.get(key, default) with a text value or an int default
DictGet(d, key, default) ==
    IF key \in DOMAIN d THEN [kind |-> "str", s |-> d[key], n |-> 0]
    ELSE [kind |-> "int", s |-> <<>>, n |-> default]

----------------------------------------------------------------------------
(* airbnb.py: constants, check_data_exist, get_user_input, get_listings,
   filter_listings *)

MIN_AIRBNB_PRICE == 0
MAX_AIRBNB_PRICE == 100000

AmenitiesFile == "input/amenities-vancouver.json.gz"
AirbnbFile == "input/airbnb-listings.csv.gz"
ResultsDir == "results"

\* check_data_exist of airbnb.py with the two existence checks in the other order
check_data_exist_airbnb_swapped(fs) ==
    IF AirbnbFile \notin fs
    THEN [status |-> "exit", makedirs |-> {},
          message |-> "Error: airbnb-listings.csv.gz is not present in /input directory."]
    ELSE IF AmenitiesFile \notin fs
    THEN [status |-> "exit", makedirs |-> {},
          message |-> "Error: amenities-vancouver.json.gz is not present in /input directory."]
    ELSE [status |-> "ok", message |-> "",
          makedirs |-> IF ResultsDir \notin fs THEN {ResultsDir} ELSE {}]

\* check_data_exist of airbnb.py: exit(message) on the first missing input
\* file, else the results directory is made when it does not exist
check_data_exist_airbnb(fs) ==
    IF AmenitiesFile \notin fs
    THEN [status |-> "exit", makedirs |-> {},
          message |-> "Error: amenities-vancouver.json.gz is not present in /input directory."]
    ELSE IF AirbnbFile \notin fs
    THEN [status |-> "exit", makedirs |-> {},
          message |-> "Error: airbnb-listings.csv.gz is not present in /input directory."]
    ELSE [status |-> "ok", message |-> "",
          makedirs |-> IF ResultsDir \notin fs THEN {ResultsDir} ELSE {}]

\* check_data_exist of restaurants.py
check_data_exist_restaurants(fs) ==
    IF AmenitiesFile \notin fs
    THEN [status |-> "exit", makedirs |-> {},
          message |-> "Error: amenities-vancouver.json.gz is not present in /input directory."]
    ELSE [status |-> "ok", message |-> "",
          makedirs |-> IF ResultsDir \notin fs THEN {ResultsDir} ELSE {}]

\* get_user_input: the dict built from the two answers; a blank answer adds
\* no key.  The minimum is stored under the key 'mix_price'.
get_user_input(min_price, max_price) ==
    LET keys == (IF min_price # <<>> THEN {"mix_price"} ELSE {})
                \cup (IF max_price # <<>> THEN {"max_price"} ELSE {})
    IN  [k \in keys |-> IF k = "mix_price" THEN min_price ELSE max_price]

\* get_listings: the rows read, with their index, the price column stripped
\* of '$' and converted with errors='coerce'
get_listings(rows) ==
    [i \in 1..Len(rows) |->
        [idx |-> i,
         price |-> to_numeric(str_replace(rows[i].price, "$")),
         num_reviews |-> rows[i].num_reviews,
         review_score |-> rows[i].review_score,
         host_identity_verified |-> rows[i].host_identity_verified]]

\* filter_listings: the outcome, an error or the filtered frame
filter_listings(listings, user_filter) ==
    LET l1 == SelectSeq(listings, LAMBDA r : r.review_score # NaN)
        l2 == SelectSeq(l1, LAMBDA r : r.num_reviews > 10 /\ FloatGt(r.review_score, 75))
        l3 == SelectSeq(l2, LAMBDA r : r.host_identity_verified = "t")
    IN  IF DOMAIN user_filter # {}
        THEN LET min_price == DictGet(user_filter, "min_price", MIN_AIRBNB_PRICE)
                 max_price == DictGet(user_filter, "max_price", MAX_AIRBNB_PRICE)
                 lo == float(min_price)
                 hi == float(max_price)
             IN  IF lo.status # "ok" THEN [status |-> lo.status, frame |-> <<>>]
                 ELSE IF hi.status # "ok" THEN [status |-> hi.status, frame |-> <<>>]
                 ELSE [status |-> "ok",
                       frame |-> SelectSeq(l3, LAMBDA r : FloatLe(lo.val, r.price)
                                                          /\ FloatLe(r.price, hi.val))]
        ELSE [status |-> "ok", frame |-> l3]

\* The files main of airbnb.py saves under the results directory
AirbnbOutputs ==
    {"results/amenities-bar-chart", "results/amenities-heat-map.html",
     "results/amenities-heat-map-airbnb-pin.html", "results/amenities-cluster.html",
     "results/ideal-airbnb-listings.html"}

----------------------------------------------------------------------------
(* restaurants.py: get_restaurants, split_restaurants *)

RESTAURANTS == {"restaurant", "cafe", "fast_food"}

\* The missing-value marker of the name column
NoName == "<NaN>"

\* pd.read_json(...).dropna(): the rows read with their index, those with a
\* missing value dropped
read_json_dropna(rows) ==
    SelectSeq([i \in 1..Len(rows) |-> [idx |-> i, amenity |-> rows[i].amenity, name |-> rows[i].name]],
              LAMBDA r : r.name # NoName)

\* get_restaurants: the rows whose amenity is a restaurant kind and whose
\* name is present
get_restaurants(locations) ==
    SelectSeq(SelectSeq(locations, LAMBDA r : r.amenity \in RESTAURANTS),
              LAMBDA r : r.name # NoName)

\* restaurants.groupby('name').count()['total_branches'].loc[name]: the
\* number of rows of the frame with that name
get_restaurant_count(name, df) ==
    Cardinality({i \in 1..Len(df) : df[i].name = name})

\* split_restaurants with the chain group taken as total_branches > 2
split_restaurants_gt2(rs) ==
    LET counted == [i \in 1..Len(rs) |->
                      [idx |-> rs[i].idx, amenity |-> rs[i].amenity, name |-> rs[i].name,
                       total_branches |-> get_restaurant_count(rs[i].name, rs)]]
    IN  [chain |-> SelectSeq(counted, LAMBDA r : r.total_branches > 2),
         non_chain |-> SelectSeq(counted, LAMBDA r : r.total_branches < 2)]

\* split_restaurants: total_branches is set on every row, then the rows
\* with total_branches > 1 and those with total_branches < 2 are returned
split_restaurants(rs) ==
    LET counted == [i \in 1..Len(rs) |->
                      [idx |-> rs[i].idx, amenity |-> rs[i].amenity, name |-> rs[i].name,
                       total_branches |-> get_restaurant_count(rs[i].name, rs)]]
    IN  [chain |-> SelectSeq(counted, LAMBDA r : r.total_branches > 1),
         non_chain |-> SelectSeq(counted, LAMBDA r : r.total_branches < 2)]

\* The files main of restaurants.py saves under the results directory; two
\* more when the user named a restaurant
RestaurantOutputs(name) ==
    {"results/chain-and-non-chain-locations.html", "results/chain-restaurants-heat-map.html",
     "results/non-chain-restaurants-heat-map.html", "results/chain-restaurants-density.png",
     "results/non-chain-restaurants-density.png", "results/analysis.txt"}
    \cup (CASE name = ""          -> {}
            [] name = "Starbucks" -> {"results/Starbucks-locations.html",
                                      "results/Starbucks-heat-map.html"})

----------------------------------------------------------------------------
(* Specification Spec: a run of either script, from __main__ to its end *)

MaxRows == 2
MaxData == 3

\* Price cells of the listings file: "$50", "$150", "$250", "$1,500"
Prices == { <<"$", "5", "0">>, <<"$", "1", "5", "0">>, <<"$", "2", "5", "0">>,
            <<"$", "1", ",", "5", "0", "0">> }

\* (host_identity_verified, review_scores_rating, number_of_reviews)
Qualities == { <<"t", 80, 11>>, <<"t", 80, 10>>, <<"t", 75, 11>>, <<"t", NaN, 11>>,
               <<"f", 80, 11>> }

CsvRows ==
    { [price |-> p, host_identity_verified |-> q[1], review_score |-> q[2], num_reviews |-> q[3]] :
        p \in Prices, q \in Qualities }

\* Answers at the price prompts: blank, "100" / blank, "200", "abc"
MinAnswers == { <<>>, <<"1", "0", "0">> }
MaxAnswers == { <<>>, <<"2", "0", "0">>, <<"a", "b", "c">> }

AmenityRows == [amenity : {"restaurant", "cafe", "bank"}, name : {"Starbucks", "Subway", NoName}]
NameAnswers == {"", "Starbucks"}

Init ==
    /\ script \in {"airbnb", "restaurants"}
    /\ pc = "check_data_exist"
    /\ files \in SUBSET {AmenitiesFile, AirbnbFile, ResultsDir}
    /\ created = {}
    /\ exit_message = ""
    /\ prompts = <<>>
    /\ typed = <<>>
    /\ user_input = <<>>
    /\ name_input = ""
    /\ error = ""
    /\ csv = <<>>
    /\ airbnb = <<>>
    /\ airbnb_filtered = <<>>
    /\ data = <<>>
    /\ restaurants = <<>>
    /\ chain_restaurants = <<>>
    /\ non_chain_restaurants = <<>>
    /\ BoxIdle
    /\ IdealIdle
    /\ ClusterIdle

\* __main__ of either script: check_data_exist()
CheckDataExist ==
    /\ pc = "check_data_exist"
    /\ LET r == IF script = "airbnb" THEN check_data_exist_airbnb(files)
                ELSE check_data_exist_restaurants(files)
       IN  /\ pc' = IF r.status = "exit" THEN "exit" ELSE "get_user_input"
           /\ exit_message' = r.message
           /\ files' = files \cup r.makedirs
           /\ created' = created \cup r.makedirs
    /\ UNCHANGED <<script, prompts, typed, user_input, name_input, error, csv, airbnb,
                   airbnb_filtered, data, restaurants, chain_restaurants,
                   non_chain_restaurants, boxVars, idealVars, clusterVars>>

\* __main__ of airbnb.py: user_input = get_user_input()
GetUserInput ==
    /\ pc = "get_user_input"
    /\ script = "airbnb"
    /\ \E min_price \in MinAnswers, max_price \in MaxAnswers :
          /\ typed' = <<min_price, max_price>>
          /\ user_input' = get_user_input(min_price, max_price)
    /\ prompts' = prompts \o <<"Optional - Enter minimum Airbnb price: $",
                               "Optional - Enter maximum Airbnb price: $">>
    /\ pc' = "main"
    /\ UNCHANGED <<script, files, created, exit_message, name_input, error, csv, airbnb,
                   airbnb_filtered, data, restaurants, chain_restaurants,
                   non_chain_restaurants, boxVars, idealVars, clusterVars>>

\* __main__ of restaurants.py: user_input = input(...)
InputRestaurantName ==
    /\ pc = "get_user_input"
    /\ script = "restaurants"
    /\ \E name \in NameAnswers :
          /\ typed' = <<name>>
          /\ name_input' = name
    /\ prompts' = prompts \o <<"Optional - Enter restaurant name to find all its Vancouver locations (e.g. Starbucks): ">>
    /\ pc' = "main"
    /\ UNCHANGED <<script, files, created, exit_message, user_input, error, csv, airbnb,
                   airbnb_filtered, data, restaurants, chain_restaurants,
                   non_chain_restaurants, boxVars, idealVars, clusterVars>>

\* main of airbnb.py: the listings are read and filtered; when filter_listings
\* raises nothing has been saved yet, else every map and chart is saved (the
\* amenities file is taken to hold enough amenities for the ten clusters)
MainAirbnb ==
    /\ pc = "main"
    /\ script = "airbnb"
    /\ \E rows \in SeqsUpTo(CsvRows, MaxRows) :
          LET listings == get_listings(rows)
              r == filter_listings(listings, user_input)
          IN  /\ csv' = rows
              /\ airbnb' = listings
              /\ airbnb_filtered' = r.frame
              /\ error' = IF r.status = "ok" THEN "" ELSE r.status
              /\ pc' = IF r.status = "ok" THEN "done" ELSE "error"
              /\ created' = IF r.status = "ok" THEN created \cup AirbnbOutputs ELSE created
              /\ files' = IF r.status = "ok" THEN files \cup AirbnbOutputs ELSE files
    /\ UNCHANGED <<script, exit_message, prompts, typed, user_input, name_input, data,
                   restaurants, chain_restaurants, non_chain_restaurants, boxVars, idealVars, clusterVars>>

\* main of restaurants.py: the amenities are read, the restaurants selected
\* and split, the maps, plots and analysis.txt saved
MainRestaurants ==
    /\ pc = "main"
    /\ script = "restaurants"
    /\ \E rows \in SeqsUpTo(AmenityRows, MaxData) :
          LET rs == get_restaurants(read_json_dropna(rows))
              split == split_restaurants(rs)
          IN  /\ data' = rows
              /\ restaurants' = rs
              /\ chain_restaurants' = split.chain
              /\ non_chain_restaurants' = split.non_chain
    /\ created' = created \cup RestaurantOutputs(name_input)
    /\ files' = files \cup RestaurantOutputs(name_input)
    /\ pc' = "done"
    /\ UNCHANGED <<script, exit_message, prompts, typed, user_input, name_input, error, csv,
                   airbnb, airbnb_filtered, boxVars, idealVars, clusterVars>>

Next ==
    \/ CheckDataExist
    \/ GetUserInput
    \/ InputRestaurantName
    \/ MainAirbnb
    \/ MainRestaurants

Spec == Init /\ [][Next]_vars

----------------------------------------------------------------------------
(* Properties of the scripts, checked under Spec *)

Indexes(frame) == {frame[n].idx : n \in 1..Len(frame)}

\* C5 as stated: the listings left by filter_listings are within the price
\* range typed at the prompts: price >= m when a minimum m was typed,
\* price <= M when a maximum M was typed.
C5_TypedRangeApplied ==
    (script = "airbnb" /\ pc = "done") =>
        /\ IsNumeral(typed[1]) =>
              \A n \in 1..Len(airbnb_filtered) :
                 /\ airbnb_filtered[n].price # NaN
                 /\ airbnb_filtered[n].price >= NumeralVal(typed[1])
        /\ IsNumeral(typed[2]) =>
              \A n \in 1..Len(airbnb_filtered) :
                 /\ airbnb_filtered[n].price # NaN
                 /\ airbnb_filtered[n].price <= NumeralVal(typed[2])

\* A required input file of the running script is missing
InputMissing ==
    \/ AmenitiesFile \notin files
    \/ script = "airbnb" /\ AirbnbFile \notin files

\* C6: when a required input file is missing the script goes from
\* check_data_exist straight to exit() with the error message and stops:
\* nothing is created (no results directory, no output file), no prompt is
\* shown, main does not run; airbnb.py names the amenities file first.
C6_MissingInputExits ==
    InputMissing =>
        /\ pc \in {"check_data_exist", "exit"}
        /\ created = {}
        /\ prompts = <<>> /\ typed = <<>>
        /\ csv = <<>> /\ airbnb = <<>> /\ data = <<>>
        /\ pc = "check_data_exist" => ENABLED CheckDataExist
        /\ pc = "exit" =>
              /\ ~ENABLED Next
              /\ exit_message =
                    IF AmenitiesFile \notin files
                    THEN "Error: amenities-vancouver.json.gz is not present in /input directory."
                    ELSE "Error: airbnb-listings.csv.gz is not present in /input directory."

\* C6 witness: airbnb.py has exited with both input files missing
C6_Witness ==
    /\ script = "airbnb"
    /\ pc = "exit"
    /\ AmenitiesFile \notin files /\ AirbnbFile \notin files
    /\ exit_message = "Error: amenities-vancouver.json.gz is not present in /input directory."
    /\ ResultsDir \notin files

\* A price cell that is not '$' signs and digits only
Malformed(price) == \E i \in 1..Len(price) : price[i] \notin Digits \cup {"$"}

\* C7 as stated: no listing with a missing price is in the result of
\* filter_listings, whether or not the user supplied a price range.
C7_Original ==
    (script = "airbnb" /\ pc = "done") =>
        \A n \in 1..Len(airbnb_filtered) : airbnb_filtered[n].price # NaN

\* C7 amended: a listing with a malformed price is loaded without an error
\* with its price set to NaN, and when the user typed a minimum or a maximum
\* price no listing with a missing price is in the result of filter_listings
\* (with both prompts left blank the price filter is skipped).
C7_MalformedPriceIsNaN ==
    (script = "airbnb" /\ pc \in {"done", "error"}) =>
        /\ Len(airbnb) = Len(csv)
        /\ \A i \in 1..Len(csv) : Malformed(csv[i].price) => airbnb[i].price = NaN
        /\ (pc = "done" /\ (typed[1] # <<>> \/ typed[2] # <<>>)) =>
              \A n \in 1..Len(airbnb_filtered) : airbnb_filtered[n].price # NaN

\* C7 witness: a listing with a malformed price that passes the review and
\* host filters was loaded with price NaN and removed by the price filter
C7_Witness ==
    /\ script = "airbnb" /\ pc = "done"
    /\ typed[2] # <<>>
    /\ \E i \in 1..Len(csv) :
          /\ Malformed(csv[i].price)
          /\ csv[i].host_identity_verified = "t"
          /\ csv[i].review_score = 80 /\ csv[i].num_reviews = 11
          /\ airbnb[i].price = NaN
          /\ i \notin Indexes(airbnb_filtered)
    /\ airbnb_filtered # <<>>

\* C8: split_restaurants partitions its input: every row is in exactly one
\* of the two groups, once, and a row is in the chain group exactly when its
\* name occurs on more than one input row.
C8_SplitIsPartition ==
    (script = "restaurants" /\ pc = "done") =>
        /\ Indexes(chain_restaurants) \cup Indexes(non_chain_restaurants) = Indexes(restaurants)
        /\ Indexes(chain_restaurants) \cap Indexes(non_chain_restaurants) = {}
        /\ Len(chain_restaurants) = Cardinality(Indexes(chain_restaurants))
        /\ Len(non_chain_restaurants) = Cardinality(Indexes(non_chain_restaurants))
        /\ \A n \in 1..Len(restaurants) :
              restaurants[n].idx \in Indexes(chain_restaurants)
                 <=> \E m \in 1..Len(restaurants) :
                        m # n /\ restaurants[m].name = restaurants[n].name

\* C8 witness: a split with two rows of one name and a row of another
C8_Witness ==
    /\ script = "restaurants" /\ pc = "done"
    /\ Len(restaurants) = 3
    /\ Len(chain_restaurants) = 2
    /\ Len(non_chain_restaurants) = 1

\* C9 as stated: with no price range, a listing is kept exactly when its
\* host is verified, its review score is present and 75 or more, and it has
\* 10 or more reviews.
C9_TenReviewsAnd75 ==
    (script = "airbnb" /\ pc = "done" /\ typed = << <<>>, <<>> >>) =>
        \A i \in 1..Len(csv) :
            i \in Indexes(airbnb_filtered)
               <=> /\ csv[i].host_identity_verified = "t"
                   /\ csv[i].review_score # NaN
                   /\ csv[i].review_score >= 75
                   /\ csv[i].num_reviews >= 10

----------------------------------------------------------------------------
(* airbnb.py: k_mean_cluster and plot_amenities_cluster *)

CLUSTER_COLORS ==
    <<"red", "blue", "green", "purple", "orange", "darkred", "lightred", "cadetblue",
      "darkblue", "darkgreen", "darkpurple", "pink", "lightgreen", "beige", "black">>

\* KMeans(n_clusters=10)
n_clusters == 10

\* The label columns fit_predict can give n rows: every label 0..9 on at
\* least one row.  The rows beyond one per label are spread over the labels
\* in every way.
LabelColumns(n) ==
    LET extra == n - n_clusters
        spreads == {e \in [1..extra -> 0..(n_clusters - 1)] :
                       \A i \in 1..extra : \A j \in 1..extra : i < j => e[i] <= e[j]}
    IN  {[l \in 0..(n_clusters - 1) |-> 1 + Cardinality({i \in 1..extra : e[i] = l})] :
            e \in spreads}

\* max(amenities['clusters'])
MaxLabel(clusters) ==
    CHOOSE l \in DOMAIN clusters : \A m \in DOMAIN clusters : m <= l

\* plot_amenities_cluster: for i in range(max(amenities['clusters'])) the
\* rows of cluster i are each marked in CLUSTER_COLORS[i]
plot_amenities_cluster(clusters) ==
    LET range == 0..(MaxLabel(clusters) - 1)
    IN  IF \E i \in range : i + 1 > Len(CLUSTER_COLORS)
        THEN [status |-> "IndexError", drawn |-> <<>>]
        ELSE [status |-> "ok",
              drawn |-> [i \in range |->
                           [color |-> CLUSTER_COLORS[i + 1],
                            markers |-> IF i \in DOMAIN clusters THEN clusters[i] ELSE 0]]]

----------------------------------------------------------------------------
(* Specification SpecCluster: main's step 4 of airbnb.py, the amenities
   clustered and the clusters plotted *)

MaxAmenities == 12

InitCluster ==
    /\ km_n \in (n_clusters - 1)..MaxAmenities
    /\ km_pc = "k_mean_cluster"
    /\ km_status = "none"
    /\ km_clusters = <<>>
    /\ km_drawn = <<>>
    /\ BoxIdle
    /\ IdealIdle
    /\ ScriptIdle

\* k_mean_cluster: KMeans raises ValueError for fewer rows than clusters,
\* else every row gets a label
KMeanCluster ==
    /\ km_pc = "k_mean_cluster"
    /\ IF km_n < n_clusters
       THEN /\ km_status' = "ValueError"
            /\ km_pc' = "error"
            /\ UNCHANGED km_clusters
       ELSE /\ km_clusters' \in LabelColumns(km_n)
            /\ km_status' = "ok"
            /\ km_pc' = "plot_amenities_cluster"
    /\ UNCHANGED <<km_n, km_drawn, boxVars, idealVars, scriptVars>>

PlotAmenitiesCluster ==
    /\ km_pc = "plot_amenities_cluster"
    /\ LET r == plot_amenities_cluster(km_clusters)
       IN  /\ km_status' = r.status
           /\ km_drawn' = r.drawn
           /\ km_pc' = IF r.status = "ok" THEN "done" ELSE "error"
    /\ UNCHANGED <<km_n, km_clusters, boxVars, idealVars, scriptVars>>

NextCluster == KMeanCluster \/ PlotAmenitiesCluster

SpecCluster == InitCluster /\ [][NextCluster]_vars

\* C10 as stated: every amenity of every cluster label present (0 through 9)
\* gets one marker in the colour CLUSTER_COLORS[label], no label is skipped,
\* and the colour index stays inside CLUSTER_COLORS.
C10_EveryClusterDrawn ==
    km_pc \in {"done", "error"} /\ km_clusters # <<>> =>
        /\ km_status = "ok"
        /\ \A l \in DOMAIN km_clusters :
              /\ l \in DOMAIN km_drawn
              /\ km_drawn[l].markers = km_clusters[l]
              /\ km_drawn[l].color = CLUSTER_COLORS[l + 1]

====
